---- MODULE Spec2Model ----
(***************************************************************************)
(* A model of the indicator core of the ai-bubble repository               *)
(* (src/bubble/indicators.py): eight pure functions over pandas frames and *)
(* series.  Floating-point cells are modelled exactly: a cell is NaN, +inf, *)
(* -inf, the logarithm of a rational, or a rational multiple of the square *)
(* root of a square-free integer, so rounding is left out and signed zeros *)
(* are not told apart.  A second state machine models the session state   *)
(* of the dashboard (src/app.py, main).                                    *)
(***************************************************************************)
EXTENDS Integers, Sequences, FiniteSets, TLC

VARIABLES pc, op, input, params, result, argument,
          session_state, preset, phase, edits

\* The state of a caller of the indicator functions.
core_vars == <<pc, op, input, params, result, argument>>

\* The state of a browser session of the dashboard.
app_vars == <<session_state, preset, phase, edits>>

vars == <<pc, op, input, params, result, argument,
          session_state, preset, phase, edits>>

(***************************************************************************)
(* Bounds of the model.                                                    *)
(***************************************************************************)
MaxRows == 3

\* The manual edits of the ticker selection in one browser session.
MaxEdits == 2

(***************************************************************************)
(* Integers.                                                               *)
(***************************************************************************)
Abs(x) == IF x < 0 THEN -x ELSE x

RECURSIVE GCD(_, _)
GCD(a, b) == IF b = 0 THEN a ELSE GCD(b, a % b)

\* The largest s >= from with s*s dividing m, or best when there is none.
RECURSIVE SquarePartFrom(_, _, _)
SquarePartFrom(m, from, best) ==
  IF from * from > m THEN best
  ELSE SquarePartFrom(m, from + 1, IF m % (from * from) = 0 THEN from ELSE best)

\* The largest s with s*s dividing m (m >= 1).
SquarePart(m) == SquarePartFrom(m, 1, 1)

(***************************************************************************)
(* float64 cells.  k = "fin": the number (n/d) * sqrt(r), n/d in lowest    *)
(* terms, d > 0, r square-free (r = 1 for a rational).  k = "ln": the      *)
(* natural logarithm of the rational n/d > 0, n/d # 1.                     *)
(***************************************************************************)
NaN == [k |-> "nan", n |-> 0, d |-> 1, r |-> 1]
Inf == [k |-> "inf", n |-> 0, d |-> 1, r |-> 1]
NInf == [k |-> "ninf", n |-> 0, d |-> 1, r |-> 1]

Surd(n, d, r) ==
  LET g == GCD(Abs(n), Abs(d))
      s == IF d < 0 THEN -1 ELSE 1
  IN  IF n = 0 THEN [k |-> "fin", n |-> 0, d |-> 1, r |-> 1]
      ELSE [k |-> "fin", n |-> (s * n) \div g, d |-> (s * d) \div g, r |-> r]

Rat(n, d) == Surd(n, d, 1)
Zero == Rat(0, 1)
One == Rat(1, 1)

isna(v) == v.k = "nan"
isinf(v) == v.k \in {"inf", "ninf"}
IsFinite(v) == v.k \in {"fin", "ln"}

\* The sign of a cell that is not NaN: -1, 0 or 1.
Sign(v) ==
  CASE v.k = "inf" -> 1
    [] v.k = "ninf" -> -1
    [] v.k = "ln" -> IF v.n > v.d THEN 1 ELSE -1
    [] OTHER -> IF v.n > 0 THEN 1 ELSE IF v.n < 0 THEN -1 ELSE 0

Signed(s) == IF s > 0 THEN Inf ELSE NInf

\* The terms of a finite cell: a sum of two or more square roots with different
\* radicands is the cell [k |-> "sum", terms |-> T], T its terms.
Terms(v) == IF v.k = "sum" THEN v.terms ELSE IF v.n = 0 THEN {} ELSE {v}

FromTerms(T) ==
  IF T = {} THEN Zero
  ELSE IF Cardinality(T) = 1 THEN CHOOSE t \in T : TRUE
  ELSE [k |-> "sum", terms |-> T]

Coef(v, r) ==
  IF \E t \in Terms(v) : t.r = r THEN CHOOSE t \in Terms(v) : t.r = r ELSE Zero

Neg(v) ==
  CASE v.k = "inf" -> NInf
    [] v.k = "ninf" -> Inf
    [] v.k = "nan" -> NaN
    [] v.k = "fin" -> Surd(-v.n, v.d, v.r)
    [] OTHER -> FromTerms({Surd(-t.n, t.d, t.r) : t \in Terms(v)})

\* a + b of two cells, as IEEE 754 adds infinities; finite cells add term by term.
Add(a, b) ==
  CASE isna(a) \/ isna(b) -> NaN
    [] isinf(a) /\ isinf(b) -> IF a.k = b.k THEN a ELSE NaN
    [] isinf(a) -> a
    [] isinf(b) -> b
    [] a.k = "fin" /\ b.k = "fin" /\ (a.r = b.r \/ a.n = 0 \/ b.n = 0) ->
         Surd(a.n * b.d + b.n * a.d, a.d * b.d, IF a.n = 0 THEN b.r ELSE a.r)
    [] OTHER ->
         LET R == {t.r : t \in Terms(a) \cup Terms(b)}
             At(r) == Surd(Coef(a, r).n * Coef(b, r).d + Coef(b, r).n * Coef(a, r).d,
                           Coef(a, r).d * Coef(b, r).d, r)
         IN  FromTerms({At(r) : r \in R} \ {Zero})

Sub(a, b) == Add(a, Neg(b))

\* a * b of two one-term cells: (q1 sqrt r1)(q2 sqrt r2) = q1 q2 g sqrt(r1 r2 / g^2).
MulFin(a, b) ==
  LET g == GCD(a.r, b.r)
  IN  Surd(a.n * b.n * g, a.d * b.d, (a.r \div g) * (b.r \div g))

\* 1 / b of a one-term cell b # 0: 1 / (q sqrt r) = sqrt r / (q r).
InvFin(b) == Surd(b.d, b.n * b.r, b.r)

\* a * b of two cells; inf * 0 is NaN.
Mul(a, b) ==
  CASE isna(a) \/ isna(b) -> NaN
    [] isinf(a) \/ isinf(b) ->
         IF Sign(a) * Sign(b) = 0 THEN NaN ELSE Signed(Sign(a) * Sign(b))
    [] OTHER -> MulFin(a, b)

\* a / b of two cells, as IEEE 754 divides: x/0 is +-inf, 0/0 and inf/inf are
\* NaN.  The divisor has one term.
Div(a, b) ==
  CASE isna(a) \/ isna(b) -> NaN
    [] isinf(a) /\ isinf(b) -> NaN
    [] isinf(a) -> IF Sign(b) < 0 THEN Neg(a) ELSE a
    [] isinf(b) -> Zero
    [] b.n = 0 -> IF Terms(a) = {} THEN NaN ELSE Signed(Sign(a))
    [] a.k = "fin" -> MulFin(a, InvFin(b))
    [] OTHER -> FromTerms({MulFin(t, InvFin(b)) : t \in Terms(a)})

\* numpy.log of a cell.
Log(a) ==
  CASE isna(a) -> NaN
    [] a.k = "inf" -> Inf
    [] a.k = "ninf" -> NaN
    [] a.n < 0 -> NaN
    [] a.n = 0 -> NInf
    [] a.n = a.d -> Zero
    [] OTHER -> [k |-> "ln", n |-> a.n, d |-> a.d, r |-> 1]

\* a < b of two cells that are not NaN; finite ones are rationals.
Less(a, b) ==
  CASE a.k = "ninf" -> b.k # "ninf"
    [] a.k = "inf" -> FALSE
    [] b.k = "inf" -> TRUE
    [] b.k = "ninf" -> FALSE
    [] OTHER -> a.n * b.d < b.n * a.d

\* The square root of a cell that is NaN or a rational a/b >= 0 in lowest
\* terms: with a = s^2 u and b = t^2 v, sqrt(a/b) = s sqrt(u v) / (t v).
Sqrt(q) ==
  IF isna(q) THEN NaN
  ELSE IF q.n = 0 THEN Zero
  ELSE LET s == SquarePart(q.n)
           t == SquarePart(q.d)
           u == q.n \div (s * s)
           v == q.d \div (t * t)
       IN  Surd(s, t * v, u * v)

\* The sequence s with its elements evaluated: s \o <<>> = s.
Cells(s) == s \o <<>>

RECURSIVE SumFrom(_, _)
SumFrom(s, i) == IF i > Len(s) THEN Zero ELSE Add(s[i], SumFrom(s, i + 1))

Sum(s) == SumFrom(Cells(s), 1)

\* The cells of s that are not NaN, in order.
RECURSIVE Valid(_)
Valid(s) ==
  IF s = <<>> THEN <<>>
  ELSE (IF isna(Head(s)) THEN <<>> ELSE <<Head(s)>>) \o Valid(Tail(s))

\* The mean of the cells of s, missing cells skipped (skipna=True); NaN when
\* every cell is missing.
nanmean(s) ==
  LET valid == Valid(Cells(s))
  IN  IF valid = <<>> THEN NaN ELSE Div(Sum(valid), Rat(Len(valid), 1))

(***************************************************************************)
(* pandas objects.  ndim = 2: a DataFrame with column labels cols; ndim =  *)
(* 1: a Series called name, one cell per row; ndim = 0: a scalar.  index   *)
(* holds the row labels (dates), data one sequence of cells per row.       *)
(***************************************************************************)
DataFrame(cols, index, data) ==
  [ndim |-> 2, name |-> "", cols |-> cols, index |-> Cells(index),
   data |-> Cells([i \in 1..Len(index) |-> Cells(data[i])])]

Series(name, index, data) ==
  [ndim |-> 1, name |-> name, cols |-> <<>>, index |-> Cells(index),
   data |-> Cells([i \in 1..Len(index) |-> Cells(data[i])])]

Scalar(v) ==
  [ndim |-> 0, name |-> "", cols |-> <<>>, index |-> <<>>, data |-> <<<<v>>>>]

None == [ndim |-> 0, name |-> "", cols |-> <<>>, index |-> <<>>, data |-> <<>>]

len(x) == Len(x.index)
Width(x) == IF x.ndim = 2 THEN Len(x.cols) ELSE 1

\* The .empty property: no rows, or (a DataFrame) no columns.
empty(x) == len(x) = 0 \/ Width(x) = 0

\* x with other rows: their labels, and per row its cells.
WithData(x, index, data) ==
  [x EXCEPT !.index = Cells(index),
            !.data = Cells([i \in 1..Len(index) |-> Cells(data[i])])]

\* x / y cell by cell, of two objects with the same labels.
Divide(x, y) ==
  WithData(x, x.index,
           [i \in 1..len(x) |->
              [c \in 1..Width(x) |-> Div(x.data[i][c], y.data[i][c])]])

\* numpy.log(x) cell by cell.
log(x) ==
  WithData(x, x.index,
           [i \in 1..len(x) |-> [c \in 1..Width(x) |-> Log(x.data[i][c])]])

\* x - v cell by cell, v one cell.
Minus(x, v) ==
  WithData(x, x.index,
           [i \in 1..len(x) |-> [c \in 1..Width(x) |-> Sub(x.data[i][c], v)]])

\* x.shift(1): every row takes the cells of the row before, the first NaN.
shift(x) ==
  WithData(x, x.index,
           [i \in 1..len(x) |->
              [c \in 1..Width(x) |-> IF i = 1 THEN NaN ELSE x.data[i - 1][c]]])

\* x.ffill(): a missing cell takes the last valid cell above it in its column.
RECURSIVE LastValid(_, _, _)
LastValid(x, i, c) ==
  IF i = 0 THEN NaN
  ELSE IF ~isna(x.data[i][c]) THEN x.data[i][c]
  ELSE LastValid(x, i - 1, c)

ffill(x) ==
  WithData(x, x.index,
           [i \in 1..len(x) |-> [c \in 1..Width(x) |-> LastValid(x, i, c)]])

RowHasNa(x, i) == \E c \in 1..Width(x) : isna(x.data[i][c])

\* The positions from i on, in order, of the rows of x without a missing cell.
RECURSIVE ValidRows(_, _)
ValidRows(x, i) ==
  IF i > len(x) THEN <<>>
  ELSE (IF RowHasNa(x, i) THEN <<>> ELSE <<i>>) \o ValidRows(x, i + 1)

\* x.dropna(): the rows without a missing cell, with their labels.
dropna(x) ==
  LET keep == ValidRows(x, 1)
  IN  WithData(x, [j \in 1..Len(keep) |-> x.index[keep[j]]],
               [j \in 1..Len(keep) |-> x.data[keep[j]]])

\* x.pct_change(): x / x.shift(1) - 1, after a forward fill when the installed
\* pandas still applies the default fill_method="pad" (before pandas 3).
pct_change(x, pad) ==
  LET filled == IF pad THEN ffill(x) ELSE x
  IN  Minus(Divide(filled, shift(filled)), One)

(***************************************************************************)
(* Outcomes of a call.                                                     *)
(***************************************************************************)
Return(v) == [ok |-> TRUE, kind |-> "", msg |-> "", arg |-> 0, val |-> v]

Raise(kind, msg, arg) ==
  [ok |-> FALSE, kind |-> kind, msg |-> msg, arg |-> arg, val |-> None]

ValueError(msg, arg) == Raise("ValueError", msg, arg)

\* The three failures of the core, as the code raises them: each is a
\* ValueError, told from the others by its message.
EmptyInputError(msg) == ValueError(msg, 0)

InsufficientDataError(msg, window) == ValueError(msg, window)

\* The column failure raised as a kind of its own.
InsufficientColumnsError_as_TypeError(msg) == Raise("TypeError", msg, 0)

InsufficientColumnsError(msg) == ValueError(msg, 0)

(***************************************************************************)
(* The return calculator.                                                  *)
(***************************************************************************)
\* calculate_returns without its dropna().
calculate_returns_keeping_na(close, log_returns, pad) ==
  IF empty(close) THEN EmptyInputError("Input financial data is empty.")
  ELSE IF log_returns
       THEN Return(log(Divide(close, shift(close))))
       ELSE Return(pct_change(close, pad))

calculate_returns(close, log_returns, pad) ==
  IF empty(close) THEN EmptyInputError("Input financial data is empty.")
  ELSE IF log_returns
       THEN Return(dropna(log(Divide(close, shift(close)))))
       ELSE Return(dropna(pct_change(close, pad)))

calculate_index_returns(index, log_returns, pad) ==
  IF empty(index) THEN EmptyInputError("Index level series is empty.")
  ELSE IF log_returns
       THEN Return(dropna(log(Divide(index, shift(index)))))
       ELSE Return(dropna(pct_change(index, pad)))

(***************************************************************************)
(* The equal-weight index builder.                                         *)
(***************************************************************************)
\* x / x.iloc[0]: every cell over the cell of the first row in its column.
DivideByFirstRow(x) ==
  WithData(x, x.index,
           [i \in 1..len(x) |->
              [c \in 1..Width(x) |-> Div(x.data[i][c], x.data[1][c])]])

\* x.mean(axis=1): per row the mean over the columns, as an unnamed Series.
mean_axis1(x) ==
  Series("", x.index, [i \in 1..len(x) |-> <<nanmean(x.data[i])>>])

build_equal_weight_index(returns) ==
  IF empty(returns) THEN EmptyInputError("Input financial data is empty.")
  ELSE Return([mean_axis1(DivideByFirstRow(returns))
                 EXCEPT !.name = "equal_weight_index"])

(***************************************************************************)
(* The rolling statistics engine.  rolling(window=w) has min_periods = w:  *)
(* a window is full at row i when i >= w and none of its w cells is        *)
(* missing, an infinite cell counting as missing.                          *)
(***************************************************************************)
TradingDays == 252

\* The w cells of column c that end at row i.
Window(x, i, c, w) == Cells([j \in 1..w |-> x.data[i - w + j][c]])

FullWindow(x, i, c, w) ==
  /\ i >= w
  /\ \A j \in 1..w : x.data[i - w + j][c].k = "fin"

roll_mean(x, i, c, w) ==
  IF ~FullWindow(x, i, c, w) THEN NaN
  ELSE Div(Sum(Window(x, i, c, w)), Rat(w, 1))

\* The sample variance (ddof = 1) of the window; NaN for a window of one row.
roll_var(x, i, c, w) ==
  IF ~FullWindow(x, i, c, w) \/ w <= 1 THEN NaN
  ELSE LET m == roll_mean(x, i, c, w)
           obs == Window(x, i, c, w)
           dev == Cells([j \in 1..w |-> Sub(obs[j], m)])
       IN  Div(Sum([j \in 1..w |-> MulFin(dev[j], dev[j])]), Rat(w - 1, 1))

\* x.rolling(window=w).mean()
rolling_mean(x, w) ==
  WithData(x, x.index,
           [i \in 1..len(x) |-> [c \in 1..Width(x) |-> roll_mean(x, i, c, w)]])

\* x.rolling(window=w).std()
rolling_std(x, w) ==
  WithData(x, x.index,
           [i \in 1..len(x) |->
              [c \in 1..Width(x) |-> Sqrt(roll_var(x, i, c, w))]])

\* x * v cell by cell, v one cell.
Times(x, v) ==
  WithData(x, x.index,
           [i \in 1..len(x) |-> [c \in 1..Width(x) |-> Mul(x.data[i][c], v)]])

\* calculate_rolling_volatility rolling over window - 1 rows.
calculate_rolling_volatility_short_window(returns, window) ==
  IF empty(returns) THEN EmptyInputError("Input data on returns is empty.")
  ELSE IF len(returns) < window
       THEN InsufficientDataError("Not enough data points to compute rolling volatility with window size", window)
       ELSE Return(Times(rolling_std(returns, window - 1), Sqrt(Rat(TradingDays, 1))))

calculate_rolling_volatility(returns, window) ==
  IF empty(returns) THEN EmptyInputError("Input data on returns is empty.")
  ELSE IF len(returns) < window
       THEN InsufficientDataError("Not enough data points to compute rolling volatility with window size", window)
       ELSE Return(Times(rolling_std(returns, window), Sqrt(Rat(TradingDays, 1))))

\* The correlation of columns a and b over the window ending at row i, as
\* rolling(...).corr() computes it: (E[xy] - E[x]E[y]) * w/(w-1) over
\* sqrt(var x * var y); 0/0 on a constant column, inf * 0 on a window of one.
roll_corr(x, i, a, b, w) ==
  IF ~(FullWindow(x, i, a, w) /\ FullWindow(x, i, b, w)) THEN NaN
  ELSE LET x_array == Window(x, i, a, w)
           y_array == Window(x, i, b, w)
           xy == [j \in 1..w |-> MulFin(x_array[j], y_array[j])]
           mean_x_y == Div(Sum(xy), Rat(w, 1))
           mean_x == roll_mean(x, i, a, w)
           mean_y == roll_mean(x, i, b, w)
           numerator == Mul(Sub(mean_x_y, Mul(mean_x, mean_y)),
                            Div(Rat(w, 1), Rat(w - 1, 1)))
           denominator == Sqrt(Mul(roll_var(x, i, a, w), roll_var(x, i, b, w)))
       IN  Div(numerator, denominator)

\* x.rolling(window=w).corr(): per date the matrix of the pairwise
\* correlations, data[i][a][b] the cell of row (date i, column a), column b.
rolling_corr(x, w) ==
  WithData(x, x.index,
           [i \in 1..len(x) |->
              [a \in 1..Width(x) |->
                 [b \in 1..Width(x) |-> roll_corr(x, i, a, b, w)]]])

\* The groupby mean leaving out each column's correlation with itself.
groupby_level0_mean_off_diagonal(m) ==
  WithData(m, m.index,
           [i \in 1..len(m) |->
              [b \in 1..Width(m) |->
                 nanmean([a \in 1..Width(m) |->
                            IF a = b THEN NaN ELSE m.data[i][a][b]])]])

\* m.groupby(level=0).mean(): per date and column b, the mean of the cells
\* of column b over the rows (date, a) of that date.
groupby_level0_mean(m) ==
  WithData(m, m.index,
           [i \in 1..len(m) |->
              [b \in 1..Width(m) |->
                 nanmean([a \in 1..Width(m) |-> m.data[i][a][b]])]])

\* calculate_rolling_correlation with the column check moved to the front.
calculate_rolling_correlation_columns_first(returns, window) ==
  IF Width(returns) < 2
  THEN InsufficientColumnsError("At least two columns of stocks are required to compute correlation.")
  ELSE IF empty(returns) THEN EmptyInputError("Input data on returns is empty.")
       ELSE IF len(returns) < window
            THEN InsufficientDataError("Not enough data points to compute rolling volatility with window size", window)
            ELSE Return(mean_axis1(groupby_level0_mean(rolling_corr(returns, window))))

\* calculate_rolling_correlation with the window check before the column check.
calculate_rolling_correlation_window_first(returns, window) ==
  IF empty(returns) THEN EmptyInputError("Input data on returns is empty.")
  ELSE IF len(returns) < window
       THEN InsufficientDataError("Not enough data points to compute rolling volatility with window size", window)
       ELSE IF Width(returns) < 2
            THEN InsufficientColumnsError("At least two columns of stocks are required to compute correlation.")
            ELSE Return(mean_axis1(groupby_level0_mean(rolling_corr(returns, window))))

calculate_rolling_correlation(returns, window) ==
  IF empty(returns) THEN EmptyInputError("Input data on returns is empty.")
  ELSE IF Width(returns) < 2
       THEN InsufficientColumnsError("At least two columns of stocks are required to compute correlation.")
       ELSE IF len(returns) < window
            THEN InsufficientDataError("Not enough data points to compute rolling volatility with window size", window)
            ELSE Return(mean_axis1(groupby_level0_mean(rolling_corr(returns, window))))

\* calculate_rolling_sharpe refusing the boundary rows = window.
calculate_rolling_sharpe_strict(returns, window, risk_free_rate) ==
  IF empty(returns) THEN EmptyInputError("Input data on returns is empty.")
  ELSE IF len(returns) <= window
       THEN InsufficientDataError("Not enough data points to compute rolling Sharpe ratio with window size", window)
       ELSE LET daily_risk_free_rate == Div(risk_free_rate, Rat(TradingDays, 1))
                excess_returns == Minus(returns, daily_risk_free_rate)
                rolling_mean_ == rolling_mean(excess_returns, window)
                rolling_std_ == rolling_std(excess_returns, window)
            IN  Return(Times(Divide(rolling_mean_, rolling_std_),
                             Sqrt(Rat(TradingDays, 1))))

calculate_rolling_sharpe(returns, window, risk_free_rate) ==
  IF empty(returns) THEN EmptyInputError("Input data on returns is empty.")
  ELSE IF len(returns) < window
       THEN InsufficientDataError("Not enough data points to compute rolling Sharpe ratio with window size", window)
       ELSE LET daily_risk_free_rate == Div(risk_free_rate, Rat(TradingDays, 1))
                excess_returns == Minus(returns, daily_risk_free_rate)
                rolling_mean_ == rolling_mean(excess_returns, window)
                rolling_std_ == rolling_std(excess_returns, window)
            IN  Return(Times(Divide(rolling_mean_, rolling_std_),
                             Sqrt(Rat(TradingDays, 1))))

(***************************************************************************)
(* The drawdown calculator.                                                *)
(***************************************************************************)
\* The largest cell of column c in rows 1..i, missing cells skipped; NaN when
\* there is none.
RECURSIVE Peak(_, _, _)
Peak(x, i, c) ==
  IF i = 0 THEN NaN
  ELSE LET before == Peak(x, i - 1, c)
           here == x.data[i][c]
       IN  IF isna(here) THEN before
           ELSE IF isna(before) \/ Less(before, here) THEN here
           ELSE before

\* x.cummax(): the running maximum; a missing cell stays missing.
cummax(x) ==
  WithData(x, x.index,
           [i \in 1..len(x) |->
              [c \in 1..Width(x) |->
                 IF isna(x.data[i][c]) THEN NaN ELSE Peak(x, i, c)]])

\* calculate_drawdown without the "- 1.0".
calculate_drawdown_ratio(index) ==
  IF empty(index) THEN EmptyInputError("Index level series is empty.")
  ELSE LET running_max == cummax(index)
       IN  Return([Divide(index, running_max) EXCEPT !.name = "drawdown"])

calculate_drawdown(index) ==
  IF empty(index) THEN EmptyInputError("Index level series is empty.")
  ELSE LET running_max == cummax(index)
       IN  Return([Minus(Divide(index, running_max), One)
                     EXCEPT !.name = "drawdown"])

\* The smallest cell of s, missing cells skipped; NaN when there is none.
RECURSIVE Smallest(_)
Smallest(s) ==
  IF s = <<>> THEN NaN
  ELSE LET rest == Smallest(Tail(s))
       IN  IF isna(Head(s)) THEN rest
           ELSE IF isna(rest) \/ Less(Head(s), rest) THEN Head(s)
           ELSE rest

\* x.min() of a Series.
min(x) == Smallest([i \in 1..len(x) |-> x.data[i][1]])

\* calculate_max_drawdown with drawdown.iloc[-1] for drawdown.min().
calculate_max_drawdown_last(index) ==
  LET drawdown == calculate_drawdown(index)
  IN  IF drawdown.ok
      THEN Return(Scalar(drawdown.val.data[len(drawdown.val)][1]))
      ELSE drawdown

calculate_max_drawdown(index) ==
  LET drawdown == calculate_drawdown(index)
  IN  IF drawdown.ok THEN Return(Scalar(min(drawdown.val))) ELSE drawdown

(***************************************************************************)
(* Objects.  A frame or series is an object that its caller still holds    *)
(* after a call: heap is the sequence of the objects that exist, and a     *)
(* reference is a position in it.  An operator or a method of pandas that  *)
(* is not in place puts a new object on the heap; an assignment to .name   *)
(* writes to the object its target refers to.                              *)
(***************************************************************************)
SetName(heap, ref, name) == [heap EXCEPT ![ref].name = name]

\* The heap when build_equal_weight_index(returns) has returned or raised;
\* the object returned is the last one.
build_equal_weight_index_heap(heap, returns) ==
  IF empty(heap[returns]) THEN heap
  ELSE LET normalized_returns == Len(heap) + 1
           index == Len(heap) + 2
       IN  SetName(Append(Append(heap, DivideByFirstRow(heap[returns])),
                          mean_axis1(DivideByFirstRow(heap[returns]))),
                   index, "equal_weight_index")

\* calculate_drawdown computing in place: index /= running_max; index -= 1.0,
\* and drawdown bound to the object of index.
calculate_drawdown_heap_in_place(heap, index) ==
  IF empty(heap[index]) THEN heap
  ELSE LET running_max == Len(heap) + 1
           drawdown == index
       IN  SetName([Append(heap, cummax(heap[index]))
                      EXCEPT ![index] = Minus(Divide(heap[index], cummax(heap[index])), One)],
                   drawdown, "drawdown")

\* The heap when calculate_drawdown(index) has returned or raised; the
\* object returned is the last one.
calculate_drawdown_heap(heap, index) ==
  IF empty(heap[index]) THEN heap
  ELSE LET running_max == Len(heap) + 1
           drawdown == Len(heap) + 2
       IN  SetName(Append(Append(heap, cummax(heap[index])),
                          Minus(Divide(heap[index], cummax(heap[index])), One)),
                   drawdown, "drawdown")

\* The object x that a caller passed to the operation o, when the call has
\* returned or raised.  The return calculators and the rolling operations
\* assign to no attribute and call no in-place method.
ArgumentAfter(o, x) ==
  CASE o = "build_equal_weight_index" -> build_equal_weight_index_heap(<<x>>, 1)[1]
    [] o \in {"calculate_drawdown", "calculate_max_drawdown"}
         -> calculate_drawdown_heap(<<x>>, 1)[1]
    [] OTHER -> x

\* The call o(x, ...) with the keyword arguments p.
Apply(o, x, p) ==
  CASE o = "calculate_returns" -> calculate_returns(x, p.log_returns, p.pad)
    [] o = "calculate_index_returns" -> calculate_index_returns(x, p.log_returns, p.pad)
    [] o = "build_equal_weight_index" -> build_equal_weight_index(x)
    [] o = "calculate_rolling_volatility" -> calculate_rolling_volatility(x, p.window)
    [] o = "calculate_rolling_correlation" -> calculate_rolling_correlation(x, p.window)
    [] o = "calculate_rolling_sharpe" ->
         calculate_rolling_sharpe(x, p.window, p.risk_free_rate)
    [] o = "calculate_drawdown" -> calculate_drawdown(x)
    [] o = "calculate_max_drawdown" -> calculate_max_drawdown(x)

(***************************************************************************)
(* The inputs a caller passes.  Rows carry the dates 1, 2, ... in order;   *)
(* a panel has the first columns of Columns.                               *)
(***************************************************************************)
Columns == <<"A", "B">>

Dates(n) == [i \in 1..n |-> i]

\* Prices: non-negative, with gaps.
PriceCells == {NaN, Zero, One, Rat(2, 1)}

\* Returns: finite, of either sign.
ReturnCells == {Rat(-1, 2), Zero, One}

\* Returns of the panels of the rolling operations.
RollingCells == {Rat(-1, 2), One}

\* Index levels: positive.
IndexCells == {Rat(1, 2), One, Rat(3, 2)}

\* Window sizes, up to one more than the rows an input can have.
Windows == 1..(MaxRows + 1)

\* Annual risk-free rates: 0 (the default) and one that makes a daily rate
\* of 1/2, among the returns a caller passes.
RiskFreeRates == {Zero, Rat(126, 1)}

Panel(c, r, d) == DataFrame(SubSeq(Columns, 1, c), Dates(r), d)

NoParams == [window |-> 0, log_returns |-> FALSE, pad |-> FALSE, risk_free_rate |-> Zero]

\* log returns never reach pct_change, so its fill default is left at FALSE.
FillDefaults(log_returns) == IF log_returns THEN {FALSE} ELSE BOOLEAN

(***************************************************************************)
(* The dashboard (src/app.py): the ticker universe and the presets.        *)
(***************************************************************************)
AI_TICKERS ==
  <<"NVDA", "MSFT", "GOOGL", "META", "AMZN", "TSM", "AMD", "AVGO", "ASML",
    "BOTZ", "ARKQ", "AIQ">>

TICKER_CATEGORIES ==
  [p \in {"core AI leaders", "AI hardware / semis", "AI platforms", "AI ETFs",
          "all AI names", "custom selection"} |->
     CASE p = "core AI leaders" -> <<"NVDA", "MSFT", "GOOGL", "META">>
       [] p = "AI hardware / semis" -> <<"NVDA", "AMD", "AVGO", "ASML", "TSM">>
       [] p = "AI platforms" -> <<"MSFT", "GOOGL", "META", "AMZN">>
       [] p = "AI ETFs" -> <<"BOTZ", "ARKQ", "AIQ">>
       [] p = "all AI names" -> AI_TICKERS
       [] p = "custom selection" -> <<>>]

\* The selectbox shows the first key of TICKER_CATEGORIES (index=0).
DefaultPreset == "core AI leaders"

\* st.session_state of a new session: no key.
NewSessionState == [k \in {} |-> <<>>]

\* "what should the selection be for this preset?"
preset_selection(p) ==
  IF p = "custom selection"
  THEN <<"NVDA", "MSFT", "GOOGL", "META">>
  ELSE TICKER_CATEGORIES[p]

\* The multiselect after a click on the ticker t: t is taken out of the
\* selection, or put at its end.
Toggle(selection, t) ==
  IF \E i \in 1..Len(selection) : selection[i] = t
  THEN LET Keep(x) == x # t IN SelectSeq(selection, Keep)
  ELSE Append(selection, t)

(***************************************************************************)
(* The state machine: a caller that is idle calls one operation with an    *)
(* input of its choice, and the call returns or raises; the caller then    *)
(* drops the outcome and is idle again.                                    *)
(***************************************************************************)
Init ==
  /\ pc = "idle"
  /\ op = "none"
  /\ input = None
  /\ params = NoParams
  /\ result = Return(None)
  /\ argument = None
  /\ session_state = NewSessionState
  /\ preset = DefaultPreset
  /\ phase = "rerun"
  /\ edits = 0

CallCalculateReturns ==
  /\ pc = "idle"
  /\ \E r \in 0..MaxRows, c \in 0..Len(Columns) :
       \E d \in [1..r -> [1..c -> PriceCells]] :
         \E lg \in BOOLEAN :
           \E pad \in FillDefaults(lg) :
             /\ op' = "calculate_returns"
             /\ input' = Panel(c, r, d)
             /\ params' = [NoParams EXCEPT !.log_returns = lg, !.pad = pad]
             /\ result' = calculate_returns(Panel(c, r, d), lg, pad)
  /\ pc' = "done"
  /\ argument' = ArgumentAfter(op', input')
  /\ UNCHANGED app_vars

CallCalculateIndexReturns ==
  /\ pc = "idle"
  /\ \E r \in 0..MaxRows :
       \E d \in [1..r -> [1..1 -> PriceCells]] :
         \E lg \in BOOLEAN :
           \E pad \in FillDefaults(lg) :
             /\ op' = "calculate_index_returns"
             /\ input' = Series("index", Dates(r), d)
             /\ params' = [NoParams EXCEPT !.log_returns = lg, !.pad = pad]
             /\ result' = calculate_index_returns(Series("index", Dates(r), d), lg, pad)
  /\ pc' = "done"
  /\ argument' = ArgumentAfter(op', input')
  /\ UNCHANGED app_vars

CallBuildEqualWeightIndex ==
  /\ pc = "idle"
  /\ \E r \in 0..MaxRows, c \in 0..Len(Columns) :
       \E d \in [1..r -> [1..c -> ReturnCells]] :
         /\ op' = "build_equal_weight_index"
         /\ input' = Panel(c, r, d)
         /\ params' = NoParams
         /\ result' = build_equal_weight_index(Panel(c, r, d))
  /\ pc' = "done"
  /\ argument' = ArgumentAfter(op', input')
  /\ UNCHANGED app_vars

CallCalculateRollingVolatility ==
  /\ pc = "idle"
  /\ \E r \in 0..MaxRows, c \in 0..Len(Columns), w \in Windows :
       \E d \in [1..r -> [1..c -> RollingCells]] :
         /\ op' = "calculate_rolling_volatility"
         /\ input' = Panel(c, r, d)
         /\ params' = [NoParams EXCEPT !.window = w]
         /\ result' = calculate_rolling_volatility(Panel(c, r, d), w)
  /\ pc' = "done"
  /\ argument' = ArgumentAfter(op', input')
  /\ UNCHANGED app_vars

CallCalculateRollingCorrelation ==
  /\ pc = "idle"
  /\ \E r \in 0..MaxRows, c \in 0..Len(Columns), w \in Windows :
       \E d \in [1..r -> [1..c -> RollingCells]] :
         /\ op' = "calculate_rolling_correlation"
         /\ input' = Panel(c, r, d)
         /\ params' = [NoParams EXCEPT !.window = w]
         /\ result' = calculate_rolling_correlation(Panel(c, r, d), w)
  /\ pc' = "done"
  /\ argument' = ArgumentAfter(op', input')
  /\ UNCHANGED app_vars

CallCalculateRollingSharpe ==
  /\ pc = "idle"
  /\ \E r \in 0..MaxRows, w \in Windows, rf \in RiskFreeRates :
       \E d \in [1..r -> [1..1 -> ReturnCells]] :
         /\ op' = "calculate_rolling_sharpe"
         /\ input' = Series("returns", Dates(r), d)
         /\ params' = [NoParams EXCEPT !.window = w, !.risk_free_rate = rf]
         /\ result' = calculate_rolling_sharpe(Series("returns", Dates(r), d), w, rf)
  /\ pc' = "done"
  /\ argument' = ArgumentAfter(op', input')
  /\ UNCHANGED app_vars

CallCalculateDrawdown ==
  /\ pc = "idle"
  /\ \E r \in 0..MaxRows :
       \E d \in [1..r -> [1..1 -> IndexCells]] :
         /\ op' = "calculate_drawdown"
         /\ input' = Series("index", Dates(r), d)
         /\ params' = NoParams
         /\ result' = calculate_drawdown(Series("index", Dates(r), d))
  /\ pc' = "done"
  /\ argument' = ArgumentAfter(op', input')
  /\ UNCHANGED app_vars

CallCalculateMaxDrawdown ==
  /\ pc = "idle"
  /\ \E r \in 0..MaxRows :
       \E d \in [1..r -> [1..1 -> IndexCells]] :
         /\ op' = "calculate_max_drawdown"
         /\ input' = Series("index", Dates(r), d)
         /\ params' = NoParams
         /\ result' = calculate_max_drawdown(Series("index", Dates(r), d))
  /\ pc' = "done"
  /\ argument' = ArgumentAfter(op', input')
  /\ UNCHANGED app_vars

\* The pipeline returns -> equal-weight index -> drawdown: the series that
\* build_equal_weight_index returned is passed on to calculate_drawdown.
DrawdownOfBuiltIndex ==
  /\ pc = "done"
  /\ op = "build_equal_weight_index"
  /\ result.ok
  /\ op' = "calculate_drawdown"
  /\ input' = result.val
  /\ params' = NoParams
  /\ result' = calculate_drawdown(result.val)
  /\ pc' = "done"
  /\ argument' = ArgumentAfter("calculate_drawdown", result.val)
  /\ UNCHANGED app_vars

\* The caller passes the object it passed before, as it is now, to the same
\* operation with the same keyword arguments.
CallAgain ==
  /\ pc = "done"
  /\ result' = Apply(op, argument, params)
  /\ argument' = ArgumentAfter(op, argument)
  /\ UNCHANGED <<pc, op, input, params>>
  /\ UNCHANGED app_vars

Discard ==
  /\ pc = "done"
  /\ pc' = "idle"
  /\ op' = "none"
  /\ input' = None
  /\ params' = NoParams
  /\ result' = Return(None)
  /\ argument' = None
  /\ UNCHANGED app_vars

Next ==
  \/ CallCalculateReturns
  \/ CallCalculateIndexReturns
  \/ CallBuildEqualWeightIndex
  \/ CallCalculateRollingVolatility
  \/ CallCalculateRollingCorrelation
  \/ CallCalculateRollingSharpe
  \/ CallCalculateDrawdown
  \/ CallCalculateMaxDrawdown
  \/ DrawdownOfBuiltIndex
  \/ CallAgain
  \/ Discard

Spec == Init /\ [][Next]_vars

(***************************************************************************)
(* The dashboard's state machine.  A browser session holds session_state   *)
(* and the value of the preset selectbox; every event of the user makes    *)
(* streamlit run main again (phase = "rerun"), after which the page is     *)
(* shown (phase = "shown").  A new session starts with a run of main.      *)
(***************************************************************************)
\* The user opens the page in a new session.
OpenSession ==
  /\ phase = "shown"
  /\ session_state' = NewSessionState
  /\ preset' = DefaultPreset
  /\ edits' = 0
  /\ phase' = "rerun"
  /\ UNCHANGED core_vars

\* The user picks another preset in the selectbox.
ChoosePreset ==
  /\ phase = "shown"
  /\ \E p \in DOMAIN TICKER_CATEGORIES : p # preset /\ preset' = p
  /\ phase' = "rerun"
  /\ UNCHANGED <<session_state, edits>>
  /\ UNCHANGED core_vars

\* The user adds a ticker to the multiselect or removes one; the widget's
\* key is "selected_tickers", so its new value is in session_state when
\* main runs.
EditTickers ==
  /\ phase = "shown"
  /\ edits < MaxEdits
  /\ \E i \in 1..Len(AI_TICKERS) :
       session_state' =
         [session_state EXCEPT
            !.selected_tickers = Toggle(session_state.selected_tickers, AI_TICKERS[i])]
  /\ edits' = edits + 1
  /\ phase' = "rerun"
  /\ UNCHANGED preset
  /\ UNCHANGED core_vars

\* The user changes the time frame or the downsampling checkbox.
ChangeOtherWidget ==
  /\ phase = "shown"
  /\ phase' = "rerun"
  /\ UNCHANGED <<session_state, preset, edits>>
  /\ UNCHANGED core_vars

\* main with the second test left out: the selection is set on every run.
main_always_reset ==
  /\ phase = "rerun"
  /\ session_state' =
       [current_preset |-> preset, selected_tickers |-> preset_selection(preset)]
  /\ phase' = "shown"
  /\ UNCHANGED <<preset, edits>>
  /\ UNCHANGED core_vars

\* A run of main, as far as session_state goes.
main ==
  /\ phase = "rerun"
  /\ LET first == IF "current_preset" \notin DOMAIN session_state
                  THEN [current_preset |-> preset,
                        selected_tickers |-> preset_selection(preset)]
                  ELSE session_state
     IN  session_state' =
           IF preset # first.current_preset
           THEN [current_preset |-> preset,
                 selected_tickers |-> preset_selection(preset)]
           ELSE first
  /\ phase' = "shown"
  /\ UNCHANGED <<preset, edits>>
  /\ UNCHANGED core_vars

AppNext ==
  \/ OpenSession
  \/ ChoosePreset
  \/ EditTickers
  \/ ChangeOtherWidget
  \/ main

AppSpec == Init /\ [][AppNext]_vars

(***************************************************************************)
(* Vocabulary of the properties.                                           *)
(***************************************************************************)
Done(o) == pc = "done" /\ op = o

RollingOperations ==
  {"calculate_rolling_volatility", "calculate_rolling_correlation",
   "calculate_rolling_sharpe"}

Operations ==
  RollingOperations \cup
    {"calculate_returns", "calculate_index_returns", "build_equal_weight_index",
     "calculate_drawdown", "calculate_max_drawdown"}

HasNa(x) == \E i \in 1..len(x) : RowHasNa(x, i)

\* What a failure reports, read off its message: "empty" (no rows), "data"
\* (fewer rows than the window), "columns" (fewer than two columns).
Cause(r) ==
  CASE r.msg \in {"Input financial data is empty.", "Index level series is empty.",
                  "Input data on returns is empty."} -> "empty"
    [] r.msg \in {"Not enough data points to compute rolling volatility with window size",
                  "Not enough data points to compute rolling Sharpe ratio with window size"}
         -> "data"
    [] r.msg = "At least two columns of stocks are required to compute correlation."
         -> "columns"
    [] OTHER -> "other"

Fails(r, cause) == ~r.ok /\ Cause(r) = cause

\* One failure of each cause, as the code raises it.
Failures ==
  {EmptyInputError("Input data on returns is empty."),
   InsufficientDataError("Not enough data points to compute rolling volatility with window size", 1),
   InsufficientColumnsError("At least two columns of stocks are required to compute correlation.")}

\* An except clause written for the kind of failure e catches the failure r.
Catches(e, r) == ~r.ok /\ r.kind = e.kind

(***************************************************************************)
(* C1.  As stated: on every price panel with at least one row and column,  *)
(* calculate_returns and calculate_index_returns, with either convention,  *)
(* return exactly len(prices) - 1 rows, none with an undefined cell.       *)
(***************************************************************************)
C1_ExactlyOneRowFewer ==
  (pc = "done" /\ op \in {"calculate_returns", "calculate_index_returns"}
     /\ ~empty(input))
    => /\ result.ok
       /\ len(result.val) = len(input) - 1
       /\ ~HasNa(result.val)

\* Every cell is a number above zero: no gap, no zero, nothing infinite.
AllPositive(x) ==
  \A i \in 1..len(x), c \in 1..Width(x) : x.data[i][c].k = "fin" /\ x.data[i][c].n > 0

(***************************************************************************)
(* C1, amended.  The result has at most len(prices) - 1 rows, exactly that *)
(* many when the panel has no missing cell and no zero price; its rows are *)
(* rows of the panel after the first, in order, and none has an undefined  *)
(* cell.                                                                   *)
(***************************************************************************)
C1_AtMostOneRowFewer ==
  (pc = "done" /\ op \in {"calculate_returns", "calculate_index_returns"}
     /\ ~empty(input))
    => /\ result.ok
       /\ len(result.val) <= len(input) - 1
       /\ AllPositive(input) => len(result.val) = len(input) - 1
       /\ \A j \in 1..len(result.val) : result.val.index[j] > input.index[1]
       /\ \A j \in 1..(len(result.val) - 1) :
            result.val.index[j] < result.val.index[j + 1]
       /\ \A j \in 1..len(result.val) :
            \E i \in 2..len(input) : result.val.index[j] = input.index[i]
       /\ ~HasNa(result.val)

\* A panel with a gap whose returns lose more than the first row.
C1_Witness ==
  /\ Done("calculate_returns")
  /\ HasNa(input)
  /\ len(input) = 3
  /\ result.ok
  /\ len(result.val) = 1

(***************************************************************************)
(* C2.  Every operation called on an input of zero rows fails with the     *)
(* empty-input failure, whatever the number of columns and the window: the *)
(* emptiness check comes before the column and the window check.           *)
(***************************************************************************)
C2_EmptyCheckedFirst ==
  (pc = "done" /\ op \in Operations /\ len(input) = 0) => Fails(result, "empty")

\* Rolling correlation of zero rows, one column, window above the rows.
C2_Witness ==
  /\ Done("calculate_rolling_correlation")
  /\ len(input) = 0
  /\ Width(input) = 1
  /\ params.window > len(input)
  /\ Fails(result, "empty")

(***************************************************************************)
(* C3.  As stated: a rolling operation on a non-empty input fails with the *)
(* insufficient-data failure exactly when the window exceeds the rows.     *)
(***************************************************************************)
C3_WindowAboveRowsRaises ==
  (pc = "done" /\ op \in RollingOperations /\ ~empty(input))
    => (Fails(result, "data") <=> params.window > len(input))

(***************************************************************************)
(* C3, amended.  A rolling operation on a non-empty input, of two or more  *)
(* columns when it is the correlation, fails with the insufficient-data    *)
(* failure exactly when the window exceeds the rows; with rows >= window   *)
(* no rolling operation raises it.                                         *)
(***************************************************************************)
C3_WindowAboveRowsRaisesGivenColumns ==
  (pc = "done" /\ op \in RollingOperations /\ ~empty(input))
    => /\ (op = "calculate_rolling_correlation" => Width(input) >= 2)
            => (Fails(result, "data") <=> params.window > len(input))
       /\ params.window <= len(input) => ~Fails(result, "data")

\* The boundary rows = window is accepted.
C3_Witness ==
  /\ Done("calculate_rolling_correlation")
  /\ Width(input) = 2
  /\ len(input) = 2
  /\ params.window = len(input)
  /\ result.ok

(***************************************************************************)
(* C4.  Rolling correlation of a non-empty panel fails with the            *)
(* insufficient-columns failure when the panel has fewer than two columns, *)
(* for every window, and never when it has two or more.                    *)
(***************************************************************************)
C4_ColumnsCheckedBeforeWindow ==
  (Done("calculate_rolling_correlation") /\ ~empty(input))
    => (Fails(result, "columns") <=> Width(input) < 2)

\* One column and a window above the rows: the column failure wins.
C4_Witness ==
  /\ Done("calculate_rolling_correlation")
  /\ Width(input) = 1
  /\ len(input) = 2
  /\ params.window > len(input)
  /\ Fails(result, "columns")

(***************************************************************************)
(* C5.  As stated: the failures are distinct kinds, so an except clause    *)
(* for the kind of one cause never catches a failure of another cause.     *)
(***************************************************************************)
C5_KindsAreDistinct ==
  (pc = "done" /\ ~result.ok)
    => \A e \in Failures : Cause(e) # Cause(result) => ~Catches(e, result)

(***************************************************************************)
(* C5, amended.  Every failure of the core is of the one kind ValueError:  *)
(* an except clause for the kind of any cause catches the failures of      *)
(* every cause, and the causes are told apart by the message alone.        *)
(***************************************************************************)
C5_OneKindToldApartByMessage ==
  (pc = "done" /\ ~result.ok)
    => /\ result.kind = "ValueError"
       /\ Cause(result) \in {"empty", "data", "columns"}
       /\ \A e \in Failures :
            /\ Catches(e, result)
            /\ Cause(e) # Cause(result) => e.msg # result.msg

\* A failure for too few columns.
C5_Witness ==
  /\ Done("calculate_rolling_correlation")
  /\ Fails(result, "columns")
  /\ \E e \in Failures : Cause(e) = "data" /\ Catches(e, result)

AtRunningMax(x, i) == \A j \in 1..i : ~Less(x.data[i][1], x.data[j][1])

(***************************************************************************)
(* C6.  On a non-empty series of positive index levels calculate_drawdown  *)
(* returns a series with the labels of its input whose values are all <= 0 *)
(* and exactly 0 wherever the index is at its running maximum.             *)
(***************************************************************************)
C6_DrawdownNeverAboveZero ==
  (Done("calculate_drawdown") /\ ~empty(input) /\ AllPositive(input))
    => /\ result.ok
       /\ result.val.index = input.index
       /\ \A i \in 1..len(input) :
            /\ result.val.data[i][1].k = "fin"
            /\ result.val.data[i][1].n <= 0
            /\ AtRunningMax(input, i) => result.val.data[i][1] = Zero

\* A fall below the peak, then a new peak.
C6_Witness ==
  /\ Done("calculate_drawdown")
  /\ AllPositive(input)
  /\ len(input) = 3
  /\ result.ok
  /\ result.val.data[2][1].n < 0
  /\ AtRunningMax(input, 3)
  /\ result.val.data[3][1] = Zero

(***************************************************************************)
(* C7.  build_equal_weight_index of any non-empty return panel returns a   *)
(* series whose first value is exactly 1.0.                                *)
(***************************************************************************)
C7_FirstValueIsOne ==
  (Done("build_equal_weight_index") /\ ~empty(input))
    => /\ result.ok
       /\ result.val.data[1][1] = One

Truncate(x, w) == WithData(x, SubSeq(x.index, 1, w), SubSeq(x.data, 1, w))

\* The rolling operation o called again, on x.
Rolling(o, x, p) ==
  CASE o = "calculate_rolling_volatility" -> calculate_rolling_volatility(x, p.window)
    [] o = "calculate_rolling_correlation" -> calculate_rolling_correlation(x, p.window)
    [] o = "calculate_rolling_sharpe" ->
         calculate_rolling_sharpe(x, p.window, p.risk_free_rate)

RowUndefined(x, i) == \A c \in 1..Width(x) : isna(x.data[i][c])
RowDefined(x, i) == \A c \in 1..Width(x) : ~isna(x.data[i][c])

\* Column c holds one value in its first w rows.
ConstantOver(x, c, w) == \A j \in 1..w : x.data[j][c] = x.data[1][c]

(***************************************************************************)
(* C8.  As stated: a rolling operation with window w on n >= w rows keeps  *)
(* the row labels, leaves the first w - 1 entries undefined, and its entry *)
(* at position w - 1 is defined and is what the first w rows alone give.   *)
(***************************************************************************)
C8_FirstFullWindowIsDefined ==
  (pc = "done" /\ op \in RollingOperations /\ result.ok)
    => /\ result.val.index = input.index
       /\ \A i \in 1..(params.window - 1) : RowUndefined(result.val, i)
       /\ RowDefined(result.val, params.window)
       /\ result.val.data[params.window]
            = Rolling(op, Truncate(input, params.window), params).val.data[params.window]

\* When the entry of the first full window is defined.
FirstWindowDefined ==
  /\ params.window >= 2
  /\ op = "calculate_rolling_sharpe"
       => ~ \A j \in 1..params.window :
              input.data[j][1] = Div(params.risk_free_rate, Rat(TradingDays, 1))
  /\ op = "calculate_rolling_correlation"
       => \E c \in 1..Width(input) : ~ConstantOver(input, c, params.window)

(***************************************************************************)
(* C8, amended.  A rolling operation with window w on n >= w rows of       *)
(* finite values keeps the row labels, leaves the first w - 1 entries      *)
(* undefined, and its entry at position w - 1 is what the first w rows     *)
(* alone give; that entry is defined exactly when w >= 2 and, for the      *)
(* Sharpe ratio, the first w returns are not all equal to the daily        *)
(* risk-free rate and, for the correlation, some column is not constant    *)
(* over the first w rows.                                                  *)
(***************************************************************************)
C8_FirstFullWindowDependsOnItsRows ==
  (pc = "done" /\ op \in RollingOperations /\ result.ok)
    => /\ result.val.index = input.index
       /\ \A i \in 1..(params.window - 1) : RowUndefined(result.val, i)
       /\ RowDefined(result.val, params.window) <=> FirstWindowDefined
       /\ ~FirstWindowDefined => RowUndefined(result.val, params.window)
       /\ result.val.data[params.window]
            = Rolling(op, Truncate(input, params.window), params).val.data[params.window]

\* A window of two on three rows: the second entry is the first defined one,
\* and the third row differs from the second.
C8_Witness ==
  /\ Done("calculate_rolling_volatility")
  /\ params.window = 2
  /\ len(input) = 3
  /\ Width(input) = 2
  /\ input.data[3] # input.data[2]
  /\ result.ok
  /\ RowUndefined(result.val, 1)
  /\ RowDefined(result.val, 2)

(***************************************************************************)
(* C9.  The series build_equal_weight_index returns on a non-empty return  *)
(* panel holds positive values only.                                       *)
(***************************************************************************)
C9_BuiltIndexIsPositive ==
  (Done("build_equal_weight_index") /\ ~empty(input))
    => /\ result.ok
       /\ AllPositive(result.val)

\* The mean of all the n * n cells of the matrix m, missing cells not skipped.
AverageOfAll(m, n) ==
  Div(Sum([q \in 1..(n * n) |-> m[((q - 1) \div n) + 1][((q - 1) % n) + 1]]),
      Rat(n * n, 1))

\* The mean of the cells of m in the rows and columns of K, K not empty.
AverageOver(m, n, K) ==
  Div(Sum([q \in 1..(n * n) |->
             IF ((q - 1) \div n) + 1 \in K /\ ((q - 1) % n) + 1 \in K
             THEN m[((q - 1) \div n) + 1][((q - 1) % n) + 1]
             ELSE Zero]),
      Rat(Cardinality(K) * Cardinality(K), 1))

\* The columns that are not constant over the window that ends at row i.
Varying(x, i, w) ==
  {c \in 1..Width(x) : \E j \in 1..w : x.data[i - w + j][c] # x.data[i][c]}

(***************************************************************************)
(* C10.  As stated: at every date with a full window the rolling           *)
(* correlation is the mean of all n * n cells of the window's correlation  *)
(* matrix.                                                                 *)
(***************************************************************************)
C10_MeanOfWholeMatrix ==
  (Done("calculate_rolling_correlation") /\ result.ok)
    => \A i \in params.window..len(input) :
         result.val.data[i][1]
           = AverageOfAll(rolling_corr(input, params.window).data[i], Width(input))

(***************************************************************************)
(* C10, amended.  At every date with a full window the rolling correlation *)
(* is the mean of the k * k cells of the window's correlation matrix that  *)
(* lie in the rows and columns of the k columns that vary in the window,   *)
(* their diagonal cells (each 1) included; the cells of a constant column  *)
(* are undefined and skipped, and the value is undefined when k = 0.  When *)
(* every column varies it is the mean of all n * n cells.                  *)
(***************************************************************************)
C10_MeanOfDefinedMatrixCells ==
  (Done("calculate_rolling_correlation") /\ result.ok)
    => \A i \in params.window..len(input) :
         LET m == rolling_corr(input, params.window).data[i]
             n == Width(input)
             K == Varying(input, i, params.window)
         IN  /\ \A a \in 1..n, b \in 1..n : isna(m[a][b]) <=> (a \notin K \/ b \notin K)
             /\ \A a \in K : m[a][a] = One
             /\ result.val.data[i][1]
                  = IF K = {} THEN NaN ELSE AverageOver(m, n, K)
             /\ K = 1..n => result.val.data[i][1] = AverageOfAll(m, n)

\* Two columns that vary in the window and are not perfectly correlated.
C10_Witness ==
  /\ Done("calculate_rolling_correlation")
  /\ result.ok
  /\ params.window = 3
  /\ len(input) = 3
  /\ Varying(input, 3, 3) = {1, 2}
  /\ ~isna(result.val.data[3][1])
  /\ result.val.data[3][1] # One
  /\ result.val.data[3][1] # Zero

\* No later level of the series is below an earlier one.
NonDecreasing(x) ==
  \A i \in 1..len(x), j \in 1..len(x) : i < j => ~Less(x.data[j][1], x.data[i][1])

(***************************************************************************)
(* C11.  calculate_max_drawdown of a non-empty series of index levels      *)
(* returns one number, the least value of calculate_drawdown of the same   *)
(* series, which is 0 when the series never falls; on an empty series it   *)
(* fails as calculate_drawdown does, with the empty-input failure.         *)
(***************************************************************************)
C11_MaxDrawdownIsMinimum ==
  Done("calculate_max_drawdown")
    => LET drawdown == calculate_drawdown(input)
       IN  IF empty(input)
           THEN /\ Fails(result, "empty")
                /\ result = drawdown
           ELSE /\ result.ok
                /\ drawdown.ok
                /\ result.val.ndim = 0
                /\ \E i \in 1..len(input) :
                     drawdown.val.data[i][1] = result.val.data[1][1]
                /\ \A i \in 1..len(input) :
                     ~Less(drawdown.val.data[i][1], result.val.data[1][1])
                /\ NonDecreasing(input) => result.val.data[1][1] = Zero

\* A fall that is recovered: the worst drawdown is not the last one.
C11_Witness ==
  /\ Done("calculate_max_drawdown")
  /\ len(input) = 3
  /\ result.ok
  /\ result.val.data[1][1].n < 0
  /\ calculate_drawdown(input).val.data[3][1] = Zero
  /\ ~NonDecreasing(input)

(***************************************************************************)
(* C12.  No operation changes the object it is passed: after every call,   *)
(* in any sequence of calls, returned or failed, the object passed has the *)
(* rows, columns, cells and name it had before; the names                  *)
(* "equal_weight_index" and "drawdown" are given to the new object that is *)
(* returned; and a call repeated on the same object with the same          *)
(* arguments gives the same outcome.                                       *)
(***************************************************************************)
C12_ArgumentsAreNotMutated ==
  [][/\ pc' = "done" => argument' = input'
     /\ (pc' = "done" /\ result'.ok /\ op' = "build_equal_weight_index")
          => /\ result'.val.name = "equal_weight_index"
             /\ result'.val = build_equal_weight_index_heap(<<input'>>, 1)[3]
     /\ (pc' = "done" /\ result'.ok /\ op' = "calculate_drawdown")
          => /\ result'.val.name = "drawdown"
             /\ result'.val = calculate_drawdown_heap(<<input'>>, 1)[3]
     /\ (pc = "done" /\ pc' = "done" /\ op' = op /\ input' = input /\ params' = params)
          => result' = result]_vars

\* The pipeline: the series build_equal_weight_index returned has been
\* passed to calculate_drawdown and keeps its name.
C12_Witness ==
  /\ Done("calculate_drawdown")
  /\ len(input) = 3
  /\ input.name = "equal_weight_index"
  /\ argument = input
  /\ result.ok
  /\ result.val.name = "drawdown"
  /\ result.val.data # input.data

\* A run of main: from the page's events to the page shown.
Rerun == phase = "rerun" /\ phase' = "shown"

\* The session is new, or the preset chosen is not the one stored.
PresetChanged ==
  \/ "current_preset" \notin DOMAIN session_state
  \/ preset # session_state.current_preset

(***************************************************************************)
(* C13.  As stated: after every run of main current_preset is the preset   *)
(* chosen; selected_tickers is set to the preset's ticker list, its entry  *)
(* in TICKER_CATEGORIES, exactly when the session is new or the preset     *)
(* chosen differs from the stored one, and is left as it was otherwise.    *)
(***************************************************************************)
C13_ResetToCategoryList ==
  [][Rerun =>
       /\ session_state'.current_preset = preset
       /\ session_state'.selected_tickers =
            IF PresetChanged THEN TICKER_CATEGORIES[preset]
            ELSE session_state.selected_tickers]_vars

(***************************************************************************)
(* C13, amended.  After every run of main current_preset is the preset     *)
(* chosen; selected_tickers is set to the preset's selection exactly when  *)
(* the session is new or the preset chosen differs from the stored one,    *)
(* and is left as it was otherwise, manual edits included.  The selection  *)
(* of a preset is its entry in TICKER_CATEGORIES, except that of "custom   *)
(* selection", whose entry is empty and whose selection is NVDA, MSFT,     *)
(* GOOGL, META.                                                            *)
(***************************************************************************)
C13_ResetToPresetSelection ==
  [][Rerun =>
       /\ session_state'.current_preset = preset
       /\ preset' = preset
       /\ session_state'.selected_tickers =
            IF PresetChanged
            THEN IF preset = "custom selection"
                 THEN <<"NVDA", "MSFT", "GOOGL", "META">>
                 ELSE TICKER_CATEGORIES[preset]
            ELSE session_state.selected_tickers]_vars

\* A manual edit has survived a run of main under a preset other than the
\* default one.
C13_Witness ==
  /\ phase = "shown"
  /\ edits > 0
  /\ preset = "AI ETFs"
  /\ session_state.current_preset = preset
  /\ session_state.selected_tickers = <<"BOTZ", "AIQ", "NVDA">>

====
